---------------------------- MODULE Spec2Model ----------------------------
(***************************************************************************)
(* A model of calculator.py: the four arithmetic functions add, subtract,  *)
(* multiply, divide and the chainable class Calculator.                    *)
(*                                                                         *)
(* The arguments are Python floats (IEEE 754 binary floating point with    *)
(* round-to-nearest, ties-to-even).  The model keeps the arithmetic of     *)
(* that format (signed zeros, subnormals, rounding, overflow to infinity,  *)
(* NaN) and shrinks only its width: Precision significand bits instead of  *)
(* 53, MaxExp + 1 binades instead of 2046.                                 *)
(***************************************************************************)
EXTENDS Integers, FiniteSets, Sequences, TLC

\* Width of the floating-point format (float is binary64: 53, 2046 binades).
Precision == 4
MaxExp == 4
\* 1.0 is 2^Scale times the smallest positive (subnormal) float.
Scale == 3

----------------------------------------------------------------------------
\* The float type.  A finite float is sign * mag * 2^(-Scale), where mag is
\* m * 2^e with m < 2^Precision and e <= MaxExp; mag is counted in units of
\* the smallest subnormal, so the binade e = 0 holds the subnormals and the
\* first normal binade, as in IEEE 754.

Pow2(n) == 2 ^ n

Mags == {m * Pow2(e) : m \in 0 .. (Pow2(Precision) - 1), e \in 0 .. MaxExp}

MaxMag == (Pow2(Precision) - 1) * Pow2(MaxExp)

\* The smallest normal magnitude; below it the float is subnormal.
MinNormal == Pow2(Precision - 1)

Fin(s, m) == [kind |-> "fin", sign |-> s, mag |-> m]
Inf(s) == [kind |-> "inf", sign |-> s, mag |-> 0]
NaN == [kind |-> "nan", sign |-> 0, mag |-> 0]

Finites == {Fin(s, m) : s \in {0, 1}, m \in Mags}
Floats == Finites \cup {Inf(0), Inf(1), NaN}

IsFinite(x) == x.kind = "fin"
IsNaN(x) == x.kind = "nan"
IsInf(x) == x.kind = "inf"

\* The float of a non-negative whole number n (exactly representable or not
\* is the caller's concern: the literals used below are representable).
Lit(n) == Fin(0, n * Pow2(Scale))
Zero == Lit(0)
One == Lit(1)
Two == Lit(2)

\* Python's float == : NaN equals nothing, -0.0 equals 0.0.
FEq(x, y) ==
    /\ ~IsNaN(x)
    /\ ~IsNaN(y)
    /\ \/ x = y
       \/ IsFinite(x) /\ IsFinite(y) /\ x.mag = 0 /\ y.mag = 0

Xor(s, t) == (s + t) % 2
Neg(x) == IF IsNaN(x) THEN NaN ELSE [x EXCEPT !.sign = 1 - x.sign]

\* The binade of the non-negative integer q: the least e with q < 2^(Precision+e).
RECURSIVE Binade(_, _)
Binade(q, e) == IF q < Pow2(Precision + e) THEN e ELSE Binade(q, e + 1)

\* Round the non-negative rational num/den (in units of the smallest
\* subnormal) to the nearest float of sign s, ties to the even significand;
\* a rounded magnitude above MaxMag overflows to infinity.
Round(s, num, den) ==
    LET q == num \div den
        e == Binade(q, 0)
        ulp == Pow2(e)
        lo == (q \div ulp) * ulp
        twice == 2 * (num - lo * den)
        up == \/ twice > ulp * den
              \/ twice = ulp * den /\ (q \div ulp) % 2 = 1
        m == IF up THEN lo + ulp ELSE lo
    IN  IF m > MaxMag THEN Inf(s) ELSE Fin(s, m)

\* The signed integer a finite float stands for, in units.
Units(x) == IF x.sign = 1 THEN 0 - x.mag ELSE x.mag

\* float + float.
FAdd(x, y) ==
    IF IsNaN(x) \/ IsNaN(y) THEN NaN
    ELSE IF IsInf(x) /\ IsInf(y) THEN (IF x.sign = y.sign THEN x ELSE NaN)
    ELSE IF IsInf(x) THEN x
    ELSE IF IsInf(y) THEN y
    ELSE LET t == Units(x) + Units(y)
         IN  IF t > 0 THEN Round(0, t, 1)
             ELSE IF t < 0 THEN Round(1, 0 - t, 1)
             ELSE IF x.sign = 1 /\ y.sign = 1 THEN Fin(1, 0)
             ELSE Fin(0, 0)

\* float - float.
FSub(x, y) == FAdd(x, Neg(y))

\* float * float.
FMul(x, y) ==
    IF IsNaN(x) \/ IsNaN(y) THEN NaN
    ELSE LET s == Xor(x.sign, y.sign)
         IN  IF IsInf(x) \/ IsInf(y)
             THEN IF (IsFinite(x) /\ x.mag = 0) \/ (IsFinite(y) /\ y.mag = 0)
                  THEN NaN
                  ELSE Inf(s)
             ELSE Round(s, x.mag * y.mag, Pow2(Scale))

\* The outcome of a call: the exception raised ("none" when it returns) and
\* the value returned.
Returned(v) == [err |-> "none", val |-> v]
Raised(e) == [err |-> e, val |-> NaN]

\* float / float: Python raises ZeroDivisionError on a zero divisor.
TrueDiv(x, y) ==
    IF IsFinite(y) /\ y.mag = 0 THEN Raised("ZeroDivisionError")
    ELSE IF IsNaN(x) \/ IsNaN(y) THEN Returned(NaN)
    ELSE LET s == Xor(x.sign, y.sign)
         IN  IF IsInf(x) THEN Returned(IF IsInf(y) THEN NaN ELSE Inf(s))
             ELSE IF IsInf(y) THEN Returned(Fin(s, 0))
             ELSE Returned(Round(s, x.mag * Pow2(Scale), y.mag))

----------------------------------------------------------------------------
\* The module-level functions.

\* A faulty add: the body of subtract pasted into it.
add_as_subtract(a, b) == Returned(FSub(a, b))

add(a, b) == Returned(FAdd(a, b))

subtract(a, b) == Returned(FSub(a, b))

\* A faulty multiply: it reports an overflow instead of returning infinity.
multiply_overflow(a, b) ==
    IF IsFinite(a) /\ IsFinite(b) /\ IsInf(FMul(a, b))
    THEN Raised("OverflowError")
    ELSE Returned(FMul(a, b))

multiply(a, b) == Returned(FMul(a, b))

\* A faulty divide: a divisor within a tolerance of zero counts as zero.
divide_tolerance(a, b) ==
    IF IsFinite(b) /\ b.mag <= 1 THEN Raised("ValueError")
    ELSE TrueDiv(a, b)

\* A faulty divide: floor division (a // b) where true division is meant.
divide_floor(a, b) ==
    IF FEq(b, Zero) THEN Raised("ValueError")
    ELSE IF ~(IsFinite(a) /\ IsFinite(b)) THEN TrueDiv(a, b)
    ELSE IF a.sign = b.sign
         THEN Returned(Round(0, (a.mag \div b.mag) * Pow2(Scale), 1))
         ELSE Returned(Round(1, ((a.mag + b.mag - 1) \div b.mag) * Pow2(Scale), 1))

divide(a, b) ==
    IF FEq(b, Zero) THEN Raised("ValueError")
    ELSE TrueDiv(a, b)

----------------------------------------------------------------------------
\* The class Calculator.  The heap is the sequence of the instances made so
\* far and a reference is an index into it; a method takes the heap and self
\* and yields the heap after the call, the exception raised ("none" when it
\* returns) and the reference returned (<<r>>, or <<>> when it raised).

Done(h, r) == [heap |-> h, err |-> "none", ret |-> <<r>>]
Failed(h, e) == [heap |-> h, err |-> e, ret |-> <<>>]

\* Calculator(initial_value): a new instance on the heap.
Calculator_init(h, initial_value) ==
    Done(Append(h, [value |-> initial_value]), Len(h) + 1)

\* A faulty add: it returns a new instance and leaves self as it was.
Calculator_add_copy(h, self, number) ==
    Done(Append(h, [value |-> FAdd(h[self].value, number)]), Len(h) + 1)

Calculator_add(h, self, number) ==
    Done([h EXCEPT ![self].value = FAdd(@, number)], self)

\* A faulty subtract: the operands swapped (number - value).
Calculator_subtract_swapped(h, self, number) ==
    Done([h EXCEPT ![self].value = FSub(number, @)], self)

Calculator_subtract(h, self, number) ==
    Done([h EXCEPT ![self].value = FSub(@, number)], self)

Calculator_multiply(h, self, number) ==
    Done([h EXCEPT ![self].value = FMul(@, number)], self)

\* A faulty divide: the guard tests the held value, not the divisor.
Calculator_divide_typo(h, self, number) ==
    IF FEq(h[self].value, Zero) THEN Failed(h, "ValueError")
    ELSE LET q == TrueDiv(h[self].value, number)
         IN  IF q.err # "none" THEN Failed(h, q.err)
             ELSE Done([h EXCEPT ![self].value = q.val], self)

\* A faulty divide: the value is overwritten before the divisor is checked
\* (with the IEEE quotient by zero: NaN for 0/0 and NaN/0, else infinity).
Calculator_divide_dirty(h, self, number) ==
    IF FEq(number, Zero)
    THEN LET v == h[self].value
             q == IF IsNaN(v) \/ (IsFinite(v) /\ v.mag = 0) THEN NaN
                  ELSE Inf(Xor(v.sign, number.sign))
         IN  Failed([h EXCEPT ![self].value = q], "ValueError")
    ELSE LET q == TrueDiv(h[self].value, number)
         IN  IF q.err # "none" THEN Failed(h, q.err)
             ELSE Done([h EXCEPT ![self].value = q.val], self)

Calculator_divide(h, self, number) ==
    IF FEq(number, Zero) THEN Failed(h, "ValueError")
    ELSE LET q == TrueDiv(h[self].value, number)
         IN  IF q.err # "none" THEN Failed(h, q.err)
             ELSE Done([h EXCEPT ![self].value = q.val], self)

\* A faulty reset: the value multiplied by zero instead of set to 0.0.
Calculator_reset_times_zero(h, self) ==
    Done([h EXCEPT ![self].value = FMul(@, Zero)], self)

Calculator_reset(h, self) ==
    Done([h EXCEPT ![self].value = Fin(0, 0)], self)

----------------------------------------------------------------------------
\* The callers.  One drives a Calculator: it constructs the instance and
\* calls methods on the reference it holds, which after a call that returned
\* is the reference that call returned (calc.add(5).multiply(2)).  Beside it
\* a second instance, the twin, is made from the same initial value and gets
\* the same calls except the divisions by zero, and the module-level
\* functions are applied in the same order to the initial value.  The other
\* caller calls one module-level function on two floats, and multiplies a
\* quotient back by its divisor.

VARIABLES
    using,     \* "Calculator" or "functions": which caller this is
    heap,      \* the instances
    calc,      \* the reference the caller holds
    twin,      \* the reference to the twin
    lastOp,    \* the method called last ("init" before the first call)
    lastArgs,  \* its argument: <<number>>, or <<>> for reset and init
    lastSelf,  \* the reference it was called on
    lastErr,   \* the exception it raised, "none" when it returned
    ret,       \* the reference it returned: <<r>>, or <<>>
    prev,      \* the value held before the call
    prevErr,   \* the exception the call before it raised
    before,    \* <<the value held before the call before it>> when that call
               \* was the same call with the same argument, else <<>>
    allFinite, \* whether the initial value and every argument so far were finite
    chainFn,   \* the outcome of the module-level functions applied in order
    fa, fb,    \* the arguments of a call of a module-level function
    fop,       \* the function called ("init" before the call)
    fres,      \* the outcome of the call
    fback      \* <<the outcome of multiply(quotient, fb)>>, or <<>>

accVars == <<heap, calc, twin, lastOp, lastArgs, lastSelf, lastErr, ret, prev,
             prevErr, before, allFinite, chainFn>>
fnVars == <<fa, fb, fop, fres, fback>>
vars == <<using, accVars, fnVars>>

\* The value the caller's Calculator holds.
Value == heap[calc].value

\* The arguments the Calculator's caller passes: the zeros, the smallest
\* positive float, small whole numbers, the largest finite float of either
\* sign, and an infinity.
Inputs ==
    {Zero, Neg(Zero), Fin(0, 1), One, Neg(One), Two, Lit(5),
     Fin(0, MaxMag), Fin(1, MaxMag), Inf(0)}

InitCalculator ==
    /\ using = "Calculator"
    /\ \E v0 \in Floats :
          LET c == Calculator_init(<<>>, v0)
              t == Calculator_init(c.heap, v0)
          IN  /\ heap = t.heap
              /\ calc = c.ret[1]
              /\ twin = t.ret[1]
              /\ lastSelf = c.ret[1]
              /\ prev = v0
              /\ allFinite = IsFinite(v0)
              /\ chainFn = Returned(v0)
    /\ lastOp = "init"
    /\ lastArgs = <<>>
    /\ lastErr = "none"
    /\ prevErr = "none"
    /\ ret = <<>>
    /\ before = <<>>
    /\ fa = Zero
    /\ fb = Zero
    /\ fop = "init"
    /\ fres = Returned(Zero)
    /\ fback = <<>>

InitFunctions ==
    /\ using = "functions"
    /\ fa \in Floats
    /\ fb \in Floats
    /\ fop = "init"
    /\ fres = Returned(Zero)
    /\ fback = <<>>
    /\ LET c == Calculator_init(<<>>, Zero)
           t == Calculator_init(c.heap, Zero)
       IN  /\ heap = t.heap
           /\ calc = c.ret[1]
           /\ twin = t.ret[1]
           /\ lastSelf = c.ret[1]
    /\ prev = Zero
    /\ allFinite = TRUE
    /\ chainFn = Returned(Zero)
    /\ lastOp = "init"
    /\ lastArgs = <<>>
    /\ lastErr = "none"
    /\ prevErr = "none"
    /\ ret = <<>>
    /\ before = <<>>

Init == InitCalculator \/ InitFunctions

\* One method call op(args) on the reference the caller holds, with outcome
\* o; h is the heap after the twin's call and fn the outcome of the same
\* step taken with the module-level function.  A call that raises leaves the
\* caller with the reference it had.
Call(op, args, o, h, fn) ==
    /\ using = "Calculator"
    /\ heap' = h
    /\ lastOp' = op
    /\ lastArgs' = args
    /\ lastSelf' = calc
    /\ lastErr' = o.err
    /\ ret' = o.ret
    /\ calc' = IF o.err = "none" THEN o.ret[1] ELSE calc
    /\ prev' = Value
    /\ prevErr' = lastErr
    /\ before' = IF /\ lastOp = op
                    /\ lastArgs = args
                    /\ lastErr = "none"
                    /\ o.err = "none"
                 THEN <<prev>>
                 ELSE <<>>
    /\ allFinite' = (allFinite /\ \A i \in 1 .. Len(args) : IsFinite(args[i]))
    /\ chainFn' = IF o.err = "none" /\ chainFn.err = "none" THEN fn ELSE chainFn
    /\ UNCHANGED <<using, twin, fnVars>>

CallAdd ==
    \E n \in Inputs :
        LET o == Calculator_add(heap, calc, n)
        IN  Call("add", <<n>>, o, Calculator_add(o.heap, twin, n).heap,
                 add(chainFn.val, n))

CallSubtract ==
    \E n \in Inputs :
        LET o == Calculator_subtract(heap, calc, n)
        IN  Call("subtract", <<n>>, o,
                 Calculator_subtract(o.heap, twin, n).heap,
                 subtract(chainFn.val, n))

CallMultiply ==
    \E n \in Inputs :
        LET o == Calculator_multiply(heap, calc, n)
        IN  Call("multiply", <<n>>, o,
                 Calculator_multiply(o.heap, twin, n).heap,
                 multiply(chainFn.val, n))

\* The twin is not asked to divide by zero.
CallDivide ==
    \E n \in Inputs :
        LET o == Calculator_divide(heap, calc, n)
        IN  Call("divide", <<n>>, o,
                 IF FEq(n, Zero) THEN o.heap
                 ELSE Calculator_divide(o.heap, twin, n).heap,
                 divide(chainFn.val, n))

\* There is no module-level reset: the chain of functions starts again
\* from 0.0.
CallReset ==
    LET o == Calculator_reset(heap, calc)
    IN  Call("reset", <<>>, o, Calculator_reset(o.heap, twin).heap,
             Returned(Fin(0, 0)))

\* One call of a module-level function on fa and fb.
Apply(op, r) ==
    /\ using = "functions"
    /\ fop = "init"
    /\ fop' = op
    /\ fres' = r
    /\ UNCHANGED <<using, fa, fb, fback, accVars>>

ApplyAdd == Apply("add", add(fa, fb))

ApplySubtract == Apply("subtract", subtract(fa, fb))

ApplyMultiply == Apply("multiply", multiply(fa, fb))

ApplyDivide == Apply("divide", divide(fa, fb))

\* divide(a, b) * b: the quotient that divide returned, multiplied back.
MultiplyBack ==
    /\ using = "functions"
    /\ fop = "divide"
    /\ fres.err = "none"
    /\ fback = <<>>
    /\ fback' = <<multiply(fres.val, fb)>>
    /\ UNCHANGED <<using, fa, fb, fop, fres, accVars>>

Next ==
    \/ CallAdd
    \/ CallSubtract
    \/ CallMultiply
    \/ CallDivide
    \/ CallReset
    \/ ApplyAdd
    \/ ApplySubtract
    \/ ApplyMultiply
    \/ ApplyDivide
    \/ MultiplyBack

Spec == Init /\ [][Next]_vars

----------------------------------------------------------------------------
\* Properties.

Abs(i) == IF i < 0 THEN 0 - i ELSE i
IsZero(x) == IsFinite(x) /\ x.mag = 0
IsNormal(x) == IsFinite(x) /\ x.mag >= MinNormal

\* Whether the last method call was op with a zero argument / any argument.
LastArg == lastArgs[1]
Called(op) == using = "Calculator" /\ lastOp = op

\* C1: Calculator.divide(n) with n == 0 raises ValueError (the
\* invalid-argument error), returns nothing, and the held value is the value
\* held before the call.
C1_DivideByZeroRaisesAndKeepsValue ==
    (Called("divide") /\ FEq(LastArg, Zero)) =>
        /\ lastErr = "ValueError"
        /\ ret = <<>>
        /\ calc = lastSelf
        /\ Value = prev

\* Calculator(10).divide(0): ValueError, and the value is still 10.
C1_Witness ==
    /\ Called("divide")
    /\ LastArg = Zero
    /\ lastErr = "ValueError"
    /\ prev = Lit(10)
    /\ Value = Lit(10)

\* r is a float nearest to the rational num/den (magnitudes, in units).
Nearest(r, num, den) ==
    /\ IsFinite(r)
    /\ \A m \in Mags : Abs(r.mag * den - num) <= Abs(m * den - num)

\* num/den is at or beyond the midpoint between the largest finite float
\* and the next power of two: it rounds to infinity.
Overflows(num, den) == 2 * num >= (2 * MaxMag + Pow2(MaxExp)) * den

\* r is the quotient a / b of IEEE 754 true division, for b # 0.
IsQuotient(r, a, b) ==
    IF IsNaN(a) \/ IsNaN(b) THEN IsNaN(r)
    ELSE IF IsInf(a) THEN (IF IsInf(b) THEN IsNaN(r)
                           ELSE r = Inf(Xor(a.sign, b.sign)))
    ELSE IF IsInf(b) THEN r = Fin(Xor(a.sign, b.sign), 0)
    ELSE /\ r.sign = Xor(a.sign, b.sign)
         /\ IF Overflows(a.mag * Pow2(Scale), b.mag) THEN IsInf(r)
            ELSE Nearest(r, a.mag * Pow2(Scale), b.mag)

\* C2: divide(a, b) raises ValueError exactly when b is zero (0.0 or -0.0),
\* for any a; for every other b, however small, it raises nothing and
\* returns the correctly rounded quotient a / b.
C2_DivideFailsIffDivisorZero ==
    (using = "functions" /\ fop = "divide") =>
        /\ fres.err = "ValueError" <=> IsZero(fb)
        /\ fres.err \in {"none", "ValueError"}
        /\ ~IsZero(fb) => IsQuotient(fres.val, fa, fb)

\* divide(1.0, <the smallest positive float>) returns 2^Scale.
C2_Witness ==
    /\ using = "functions"
    /\ fop = "divide"
    /\ fa = One
    /\ fb = Fin(0, 1)
    /\ fres = Returned(Fin(0, Pow2(2 * Scale)))

\* The state after a method call op that returned.
Succeeded(op) == Called(op) /\ lastErr = "none"

\* The state after two consecutive add(1.0) calls, the first made when the
\* held value was before[1].
AddedOneTwice ==
    /\ Succeeded("add")
    /\ LastArg = One
    /\ before # <<>>

\* v + 1 and v + 2 are floats: both additions are exact.
ExactPlusTwo(v) ==
    /\ IsFinite(v)
    /\ Abs(Units(v) + One.mag) \in Mags
    /\ Abs(Units(v) + Two.mag) \in Mags

\* C3 as stated: after two consecutive add(1) calls on a finite value the
\* held value is that value plus 2.
C3_TwoAddsIncreaseByTwo ==
    (AddedOneTwice /\ IsFinite(before[1])) =>
        FEq(Value, FAdd(before[1], Two))

\* C3, amended: every method call that returns returns the reference it was
\* called on and makes no new instance, so the next call acts on the same
\* held value: two consecutive add(1) calls leave (v + 1) + 1 in float
\* arithmetic, which is v + 2 whenever v + 1 and v + 2 are exactly
\* representable.
C3_ReturnsSelfAndAccumulates ==
    /\ (using = "Calculator" /\ lastOp # "init" /\ lastErr = "none") =>
          /\ ret = <<lastSelf>>
          /\ calc = lastSelf
          /\ Len(heap) = 2
    /\ AddedOneTwice =>
          /\ Value = FAdd(FAdd(before[1], One), One)
          /\ ExactPlusTwo(before[1]) => Value = FAdd(before[1], Two)

\* calc = Calculator(10); calc.add(1); calc.add(1): the value is 12.
C3_Witness ==
    /\ AddedOneTwice
    /\ before = <<Lit(10)>>
    /\ prev = Lit(11)
    /\ Value = Lit(12)
    /\ ret = <<calc>>

\* C4: the held value is the result of applying the module-level functions
\* add, subtract, multiply and divide, in call order, to the initial value
\* (to 0.0 after a reset), for the calls that returned; none of them raises.
C4_ChainEqualsFunctions ==
    using = "Calculator" =>
        /\ chainFn.err = "none"
        /\ chainFn.val = Value

\* Calculator(10).add(5).multiply(2) holds 30: the last step, from 15.
C4_Witness ==
    /\ Succeeded("multiply")
    /\ LastArg = Two
    /\ prev = Lit(15)
    /\ Value = Lit(30)
    /\ chainFn = Returned(Lit(30))

\* C5: reset() raises nothing, returns self and leaves exactly 0.0, whatever
\* was held and whatever happened before; it can be called in every state.
C5_ResetSetsZero ==
    using = "Calculator" =>
        /\ ENABLED CallReset
        /\ lastOp = "reset" =>
              /\ lastErr = "none"
              /\ ret = <<lastSelf>>
              /\ Value = Fin(0, 0)

\* A reset of a Calculator holding 5, right after a divide that failed.
C5_Witness ==
    /\ Succeeded("reset")
    /\ prevErr = "ValueError"
    /\ prev = Lit(5)
    /\ Value = Fin(0, 0)

\* C6 as stated: with a finite initial value and finite arguments the held
\* value is always a number.
C6_ValueAlwaysANumber ==
    (using = "Calculator" /\ allFinite) => ~IsNaN(Value)

\* C6, amended: the held value is always a float, and a call that raises
\* leaves it as it was; a call on a finite value with a finite argument
\* leaves a finite value or, on overflow, an infinity.  NaN appears only
\* from a value or an argument that is already infinite or NaN.
C6_ValueAlwaysAFloat ==
    using = "Calculator" =>
        /\ Value \in Floats
        /\ lastErr # "none" => Value = prev
        /\ (/\ lastOp # "init"
            /\ IsFinite(prev)
            /\ \A i \in 1 .. Len(lastArgs) : IsFinite(lastArgs[i]))
           => ~IsNaN(Value)

\* Finite inputs only, and the value is NaN: an infinity (from an overflow)
\* was multiplied by zero.
C6_Witness ==
    /\ Succeeded("multiply")
    /\ allFinite
    /\ IsInf(prev)
    /\ IsZero(LastArg)
    /\ IsNaN(Value)

\* C7: the only exception is the ValueError of a division by zero: add,
\* subtract, multiply and reset never raise, in either form, and divide, in
\* either form, raises only when the divisor is zero.
C7_OnlyDivisionByZeroRaises ==
    /\ (using = "Calculator" /\ lastErr # "none") =>
          /\ lastOp = "divide"
          /\ IsZero(LastArg)
          /\ lastErr = "ValueError"
    /\ (using = "functions" /\ fres.err # "none") =>
          /\ fop = "divide"
          /\ IsZero(fb)
          /\ fres.err = "ValueError"
    /\ fback # <<>> => fback[1].err = "none"

\* multiply of the largest finite float by itself returns infinity and
\* raises nothing.
C7_Witness ==
    /\ using = "functions"
    /\ fop = "multiply"
    /\ fa = Fin(0, MaxMag)
    /\ fb = Fin(0, MaxMag)
    /\ fres = Returned(Inf(0))

\* C8: for finite a and b, add(a, b) == add(b, a) and
\* multiply(a, b) == multiply(b, a).
C8_AddMultiplyCommute ==
    (using = "functions" /\ IsFinite(fa) /\ IsFinite(fb)) =>
        /\ fop = "add" =>
              fres.err = "none" /\ FEq(fres.val, add(fb, fa).val)
        /\ fop = "multiply" =>
              fres.err = "none" /\ FEq(fres.val, multiply(fb, fa).val)

\* add(<the smallest positive float>, 10.0): the sum rounds to 10.0.
C8_Witness ==
    /\ using = "functions"
    /\ fop = "add"
    /\ fa = Fin(0, 1)
    /\ fb = Lit(10)
    /\ fres = Returned(Lit(10))

\* r is a within floating-point tolerance: a relative error of at most two
\* machine epsilons (2 * 2^(1 - Precision)).
Close(r, a) ==
    /\ IsFinite(r)
    /\ IsFinite(a)
    /\ Abs(Units(r) - Units(a)) * Pow2(Precision - 2) <= a.mag

\* divide(fa, fb) returned and multiply(quotient, fb) was called.
MultipliedBack == using = "functions" /\ fback # <<>>

\* C9 as stated: for all finite a and b with b # 0, divide(a, b) * b is a
\* within tolerance.
C9_DivideTimesDivisorGivesBack ==
    (MultipliedBack /\ IsFinite(fa) /\ IsFinite(fb)) =>
        Close(fback[1].val, fa)

\* C9, amended: for finite a and b with b # 0, divide(a, b) * b is a within
\* tolerance provided the quotient does not overflow (it is finite), does
\* not underflow (it is normal, or a is zero) and the product does not
\* overflow.
C9_DivideTimesDivisorClose ==
    (/\ MultipliedBack
     /\ IsFinite(fa)
     /\ IsFinite(fb)
     /\ IsNormal(fres.val) \/ IsZero(fa)
     /\ IsFinite(fback[1].val))
    => Close(fback[1].val, fa)

\* An inexact round trip within the tolerance.
C9_Witness ==
    /\ MultipliedBack
    /\ IsNormal(fa)
    /\ IsNormal(fb)
    /\ IsNormal(fres.val)
    /\ IsFinite(fback[1].val)
    /\ fback[1].val # fa
    /\ Close(fback[1].val, fa)

\* What the last method call does to the value held before it.
BehavedNormally ==
    /\ lastOp = "add" => lastErr = "none" /\ Value = FAdd(prev, LastArg)
    /\ lastOp = "subtract" => lastErr = "none" /\ Value = FSub(prev, LastArg)
    /\ lastOp = "multiply" => lastErr = "none" /\ Value = FMul(prev, LastArg)
    /\ (lastOp = "divide" /\ IsZero(LastArg)) =>
          lastErr = "ValueError" /\ Value = prev
    /\ (lastOp = "divide" /\ ~IsZero(LastArg)) =>
          lastErr = "none" /\ Value = TrueDiv(prev, LastArg).val
    /\ lastOp = "reset" => lastErr = "none" /\ Value = Fin(0, 0)

\* C10: a failed divide leaves no trace: the held value is the one held by
\* the twin, which got the same calls without the divisions by zero, and the
\* call after a failed divide can be made and does what it always does.
C10_FailedDivideLeavesNoTrace ==
    using = "Calculator" =>
        /\ Value = heap[twin].value
        /\ prevErr # "none" =>
              /\ BehavedNormally
              /\ ENABLED CallAdd
              /\ ENABLED CallSubtract
              /\ ENABLED CallMultiply
              /\ ENABLED CallDivide
              /\ ENABLED CallReset

\* Calculator(10): divide(0) fails, then add(5) gives 15.
C10_Witness ==
    /\ Succeeded("add")
    /\ prevErr = "ValueError"
    /\ prev = Lit(10)
    /\ LastArg = Lit(5)
    /\ Value = Lit(15)
    /\ heap[twin].value = Lit(15)

=============================================================================
